---- MODULE Spec2Model ----
(***************************************************************************)
(* LSP connection management of talkcody: the useLsp hook                  *)
(* (src/hooks/use-lsp.ts), the LspConnectionManager                        *)
(* (src/services/lsp/lsp-connection-manager.ts), the pending-download list *)
(* of the LSP store (src/stores/lsp-store.ts) and the reference-counting   *)
(* server registry behind lspService.                                      *)
(***************************************************************************)
EXTENDS Integers, FiniteSets, Sequences, TLC

\* ------------------------------------------------------------------------
\* Bounds
\* ------------------------------------------------------------------------

\* Number of times the dependencies of the start/stop effect change, over
\* all views, in one behaviour. Every activation follows such a change, so
\* this also bounds the servers started and the references taken.
MaxChanges == 3

\* ------------------------------------------------------------------------
\* Domains
\* ------------------------------------------------------------------------

Views == {"A", "B"}

Files == {"a.ts", "b.ts"}

Languages == {"typescript"}

WorkspaceRoot == "/repo"

ServerIds == 1..MaxChanges

NoServer == 0

NoFile == "null"

NoLang == "null"

NoError == "null"

\* getLanguageIdForPath: the server key of a file ('typescript' for .ts).
getLanguageIdForPath(f) ==
    IF f \in {"a.ts", "b.ts"} THEN "typescript"
    ELSE IF f = "main.rs" THEN "rust"
    ELSE NoLang

\* The rootPath:language key of serverReferences.
KeyOf(rootPath, language) == <<rootPath, language>>

Keys == {KeyOf(WorkspaceRoot, l) : l \in Languages}

\* ------------------------------------------------------------------------
\* State
\* ------------------------------------------------------------------------

VARIABLES
    refCount,          \* lspService: serverId -> refCount (0: no record)
    srvLang,           \* lspService: serverId -> language it was started for
    nextId,            \* lspService: next fresh serverId
    cm,                \* lspConnectionManager: connections, serverReferences
    pendingDownloads,  \* useLspStore.pendingDownloads (languages, in order)
    cfg,               \* per view: the effect's dependencies
    hook,              \* per view: refs and React state of useLsp
    cur,               \* per view: position of the mounted activation
    stale,             \* per view: superseded activations still in flight
    openPending,       \* per view: openDocument calls awaiting the server
    held,              \* history: per view and server, acquired - released
    regSrv,            \* history: serverId the view passed to register
    purged,            \* history: stale serverId the activation purged
    racing,            \* history: views whose startServer calls overlapped
    changes,           \* number of dependency changes so far
    call,              \* the last call made on the API under test, and its outcome
    diag,              \* diagnostics: settings, subscribers, store, markers
    doc,               \* document notifications one view sent to its server
    keepAwake          \* keep-awake manager, execution store and backend

vars == <<refCount, srvLang, nextId, cm, pendingDownloads, cfg,
          hook, cur, stale, openPending, held, regSrv, purged, racing, changes,
          call, diag, doc, keepAwake>>

\* The state outside the LSP connection management.
sideVars == <<diag, doc, keepAwake>>

\* ------------------------------------------------------------------------
\* lspService reference counting (ServerRegistry)
\* ------------------------------------------------------------------------

\* incrementRefCount: succeeds only on a record that is running.
incrementRefCountOk(rc, sid) == rc[sid] > 0

incrementRefCount(rc, sid) ==
    IF incrementRefCountOk(rc, sid) THEN [rc EXCEPT ![sid] = @ + 1] ELSE rc

\* decrementRefCount: at 0 the process is killed and the record removed;
\* an unknown server is a no-op.
decrementRefCount(rc, sid) ==
    IF rc[sid] > 0 THEN [rc EXCEPT ![sid] = @ - 1] ELSE rc

\* ------------------------------------------------------------------------
\* LspConnectionManager
\* ------------------------------------------------------------------------

NoConn == [serverId |-> NoServer, language |-> NoLang, rootPath |-> "null"]

NoRefs == [serverId |-> NoServer, language |-> NoLang, rootPath |-> "null",
           filePaths |-> {}]

EmptyCm == [connections |-> [f \in Files |-> NoConn],
            serverReferences |-> [k \in Keys |-> NoRefs]]

getConnectionByRoot(cmgr, rootPath, language) ==
    LET refs == cmgr.serverReferences[KeyOf(rootPath, language)]
    IN  IF refs = NoRefs THEN NoConn
        ELSE [serverId |-> refs.serverId, language |-> refs.language,
              rootPath |-> refs.rootPath]

\* A register that records the serverId of the key's index entry instead of
\* the one it was given.
registerIndexedServer(cmgr, filePath, serverId, language, rootPath) ==
    LET key  == KeyOf(rootPath, language)
        old  == cmgr.serverReferences[key]
        refs == IF old = NoRefs
                THEN [serverId |-> serverId, language |-> language,
                      rootPath |-> rootPath, filePaths |-> {}]
                ELSE old
    IN  [connections |->
            [cmgr.connections EXCEPT ![filePath] =
                [serverId |-> refs.serverId, language |-> language,
                 rootPath |-> rootPath]],
         serverReferences |->
            [cmgr.serverReferences EXCEPT ![key] =
                [refs EXCEPT !.filePaths = @ \cup {filePath}]]]

register(cmgr, filePath, serverId, language, rootPath) ==
    LET key  == KeyOf(rootPath, language)
        old  == cmgr.serverReferences[key]
        refs == IF old = NoRefs
                THEN [serverId |-> serverId, language |-> language,
                      rootPath |-> rootPath, filePaths |-> {}]
                ELSE old
    IN  [connections |->
            [cmgr.connections EXCEPT ![filePath] =
                [serverId |-> serverId, language |-> language,
                 rootPath |-> rootPath]],
         serverReferences |->
            [cmgr.serverReferences EXCEPT ![key] =
                [refs EXCEPT !.filePaths = @ \cup {filePath}]]]

unregister(cmgr, filePath) ==
    LET conn == cmgr.connections[filePath]
        key  == KeyOf(conn.rootPath, conn.language)
        refs == cmgr.serverReferences[key]
        left == refs.filePaths \ {filePath}
    IN  IF conn = NoConn THEN cmgr
        ELSE IF refs = NoRefs
        THEN [cmgr EXCEPT !.connections[filePath] = NoConn]
        ELSE [connections |-> [cmgr.connections EXCEPT ![filePath] = NoConn],
              serverReferences |->
                 [cmgr.serverReferences EXCEPT ![key] =
                     IF left = {} THEN NoRefs
                     ELSE [refs EXCEPT !.filePaths = left]]]

\* An unregister that reports a last reference whatever it found.
unregisterReturnsAlways(cmgr, filePath) == TRUE

\* The return value of unregister: was this the last file of the key?
unregisterReturns(cmgr, filePath) ==
    LET conn == cmgr.connections[filePath]
        key  == KeyOf(conn.rootPath, conn.language)
        refs == cmgr.serverReferences[key]
    IN  IF conn = NoConn THEN FALSE
        ELSE IF refs = NoRefs THEN FALSE
        ELSE refs.filePaths \ {filePath} = {}

unregisterServer(cmgr, serverId) ==
    [connections |->
        [f \in DOMAIN cmgr.connections |->
            IF cmgr.connections[f].serverId = serverId THEN NoConn
            ELSE cmgr.connections[f]],
     serverReferences |->
        [k \in DOMAIN cmgr.serverReferences |->
            IF cmgr.serverReferences[k].serverId = serverId THEN NoRefs
            ELSE cmgr.serverReferences[k]]]

\* The sum of filePaths.size over the index entries of keys that name
\* serverId.
RECURSIVE countFileReferences(_, _, _)
countFileReferences(cmgr, serverId, keys) ==
    IF keys = {} THEN 0
    ELSE LET k    == CHOOSE x \in keys : TRUE
             refs == cmgr.serverReferences[k]
         IN  (IF refs # NoRefs /\ refs.serverId = serverId
              THEN Cardinality(refs.filePaths) ELSE 0)
             + countFileReferences(cmgr, serverId, keys \ {k})

getFileReferenceCount(cmgr, serverId) ==
    countFileReferences(cmgr, serverId, DOMAIN cmgr.serverReferences)

clear(cmgr) ==
    [connections |-> [f \in DOMAIN cmgr.connections |-> NoConn],
     serverReferences |-> [k \in DOMAIN cmgr.serverReferences |-> NoRefs]]

\* The diagnostics, the document notifications and the keep-awake manager
\* when they are not part of the behaviours examined.
NoDiag == "none"

NoDoc == "none"

NoKeepAwake == "none"

NoSide ==
    /\ diag = NoDiag
    /\ doc = NoDoc
    /\ keepAwake = NoKeepAwake

\* No call has been made on the API under test.
NoCall == [op |-> "none", view |-> "null", filePath |-> NoFile,
           serverId |-> NoServer, language |-> NoLang, rootPath |-> "null",
           result |-> "none", before |-> EmptyCm]

\* ------------------------------------------------------------------------
\* useLspStore.addPendingDownload
\* ------------------------------------------------------------------------

\* An addPendingDownload without the duplicate check.
addPendingDownloadAlways(pd, language) == Append(pd, language)

addPendingDownload(pd, language) ==
    IF \E i \in 1..Len(pd) : pd[i] = language THEN pd
    ELSE Append(pd, language)

\* useLspStore.removePendingDownload: filter by language.
RECURSIVE removePendingDownload(_, _)
removePendingDownload(pd, language) ==
    IF pd = <<>> THEN <<>>
    ELSE IF Head(pd) # language
    THEN <<Head(pd)>> \o removePendingDownload(Tail(pd), language)
    ELSE removePendingDownload(Tail(pd), language)

\* useLspStore.clearPendingDownloads.
clearPendingDownloads(pd) == <<>>

\* ------------------------------------------------------------------------
\* useLsp: refs and React state of one hook instance
\* ------------------------------------------------------------------------

InitHook ==
    [serverIdRef          |-> NoServer,
     filePathRef          |-> NoFile,
     languageRef          |-> NoLang,
     isDocumentOpenRef    |-> FALSE,
     hasIncrementedRefRef |-> FALSE,
     isConnected          |-> FALSE,
     isLoading            |-> FALSE,
     error                |-> NoError,
     serverId             |-> NoServer]

\* A cleanup that neither clears the flag nor resets serverIdRef.
performCleanupKeepsRefs(h, cmgr, rc) ==
    LET decs == h.hasIncrementedRefRef /\ h.serverIdRef # NoServer
    IN  [h  |-> [h EXCEPT !.isDocumentOpenRef = FALSE],
         cm |-> IF h.filePathRef # NoFile
                THEN unregister(cmgr, h.filePathRef) ELSE cmgr,
         rc |-> IF decs THEN decrementRefCount(rc, h.serverIdRef) ELSE rc,
         dec |-> IF decs THEN h.serverIdRef ELSE NoServer,
         unreg |-> h.filePathRef,
         closed |-> h.isDocumentOpenRef]

\* A cleanup that releases the reference only inside the close-document
\* branch.
performCleanupDecrementsIfOpen(h, cmgr, rc) ==
    LET closes == h.serverIdRef # NoServer /\ h.isDocumentOpenRef
                  /\ h.filePathRef # NoFile
        decs   == closes /\ h.hasIncrementedRefRef
    IN  [h  |-> [h EXCEPT
                   !.isDocumentOpenRef = IF closes THEN FALSE ELSE @,
                   !.hasIncrementedRefRef = IF decs THEN FALSE ELSE @,
                   !.serverIdRef = NoServer,
                   !.filePathRef = NoFile],
         cm |-> IF h.filePathRef # NoFile
                THEN unregister(cmgr, h.filePathRef) ELSE cmgr,
         rc |-> IF decs THEN decrementRefCount(rc, h.serverIdRef) ELSE rc,
         dec |-> IF decs THEN h.serverIdRef ELSE NoServer,
         unreg |-> h.filePathRef,
         closed |-> closes]

\* performCleanup: the new refs, connection manager and registry, whether
\* closeDocument was issued, the path unregister was called with (NoFile:
\* not called) and the server a decrementRefCount was issued against
\* (NoServer: none).
performCleanup(h, cmgr, rc) ==
    LET currentServerId == h.serverIdRef
        currentFilePath == h.filePathRef
        hasIncremented  == h.hasIncrementedRefRef
        closes == currentServerId # NoServer /\ h.isDocumentOpenRef
                  /\ currentFilePath # NoFile
        decs   == hasIncremented /\ currentServerId # NoServer
    IN  [h  |-> [h EXCEPT
                   !.isDocumentOpenRef = IF closes THEN FALSE ELSE @,
                   !.hasIncrementedRefRef = IF decs THEN FALSE ELSE @,
                   !.serverIdRef = NoServer,
                   !.filePathRef = NoFile],
         cm |-> IF currentFilePath # NoFile
                THEN unregister(cmgr, currentFilePath) ELSE cmgr,
         rc |-> IF decs THEN decrementRefCount(rc, currentServerId) ELSE rc,
         dec |-> IF decs THEN currentServerId ELSE NoServer,
         unreg |-> currentFilePath,
         closed |-> closes]

\* ------------------------------------------------------------------------
\* Initial state: every view is mounted with LSP disabled, nothing runs.
\* ------------------------------------------------------------------------

NoStale == [status |-> [l \in Languages |-> 0], start |-> [l \in Languages |-> 0]]

Init ==
    /\ refCount = [s \in ServerIds |-> 0]
    /\ srvLang = [s \in ServerIds |-> NoLang]
    /\ nextId = 1
    /\ cm = EmptyCm
    /\ pendingDownloads = <<>>
    /\ cfg = [v \in Views |-> "disabled"]
    /\ hook = [v \in Views |-> InitHook]
    /\ cur = [v \in Views |-> "none"]
    /\ stale = [v \in Views |-> NoStale]
    /\ openPending = [v \in Views |-> {}]
    /\ held = [v \in Views |-> [s \in ServerIds |-> 0]]
    /\ regSrv = [v \in Views |-> NoServer]
    /\ purged = [v \in Views |-> NoServer]
    /\ racing = {}
    /\ changes = 0
    /\ call = NoCall
    /\ NoSide

\* ------------------------------------------------------------------------
\* The start/stop effect of useLsp
\* ------------------------------------------------------------------------

\* The history of acquisitions after a cleanup that decremented server d.
Released(hv, d) == IF d = NoServer THEN hv ELSE [hv EXCEPT ![d] = @ - 1]

\* Body of the effect when !isEnabled || !filePath || !workspaceRoot.
DisabledBranch(c) ==
    IF c.h.serverIdRef # NoServer \/ c.h.hasIncrementedRefRef
    THEN LET c2 == performCleanup(c.h, c.cm, c.rc)
         IN  [c2 EXCEPT !.h = [c2.h EXCEPT !.isConnected = FALSE,
                                           !.serverId = NoServer]]
    ELSE [c EXCEPT !.dec = NoServer]

\* The dependencies of the effect of view v change to new: React runs the
\* previous effect's cleanup (isMounted = false; performCleanup), then the
\* effect body for the new dependencies.
SetProps(v, new) ==
    /\ changes < MaxChanges
    /\ changes' = changes + 1
    /\ cfg[v] # "unmounted"
    /\ new # cfg[v]
    /\ LET hadEffect == cfg[v] \in Files
           inFlight  == hadEffect /\ cur[v] \in {"status", "start"}
           lang      == getLanguageIdForPath(cfg[v])
           c0 == [h |-> hook[v], cm |-> cm, rc |-> refCount,
                  dec |-> NoServer, unreg |-> NoFile, closed |-> FALSE]
           c1 == IF hadEffect THEN performCleanup(hook[v], cm, refCount)
                 ELSE c0
           c2 == IF new = "disabled" THEN DisabledBranch(c1)
                 ELSE [c1 EXCEPT !.dec = NoServer]
           h2 == IF new \in Files
                 THEN [c2.h EXCEPT !.isLoading = TRUE, !.error = NoError]
                 ELSE c2.h
       IN  /\ hook' = [hook EXCEPT ![v] = h2]
           /\ cm' = c2.cm
           /\ refCount' = c2.rc
           /\ held' = [held EXCEPT ![v] = Released(Released(@, c1.dec), c2.dec)]
           /\ stale' = IF inFlight
                       THEN [stale EXCEPT ![v][cur[v]][lang] = @ + 1]
                       ELSE stale
    /\ cfg' = [cfg EXCEPT ![v] = new]
    /\ cur' = [cur EXCEPT ![v] = IF new \in Files THEN "status" ELSE "none"]
    /\ regSrv' = [regSrv EXCEPT ![v] = NoServer]
    /\ purged' = [purged EXCEPT ![v] = NoServer]
    /\ racing' = racing \ {v}
    /\ UNCHANGED <<srvLang, nextId, pendingDownloads, openPending, call, sideVars>>

\* ------------------------------------------------------------------------
\* initializeConnection: the continuation after `await getServerStatus`
\* and the one after `await startServer`
\* ------------------------------------------------------------------------

\* An activation of view v in flight at pc: the mounted one (m = TRUE, its
\* language that of the view's file) or a superseded one for language l.
InFlight(v, m, l, pc) ==
    IF m THEN /\ cfg[v] \in Files
              /\ cur[v] = pc
              /\ l = getLanguageIdForPath(cfg[v])
         ELSE stale[v][pc][l] > 0

\* The activation leaves pc for pc2 ("start"), or ends with outcome pc2.
Moves(v, m, l, pc, pc2) ==
    IF m THEN /\ cur' = [cur EXCEPT ![v] = pc2]
              /\ stale' = stale
         ELSE /\ cur' = cur
              /\ stale' = [stale EXCEPT
                   ![v] = IF pc2 = "start"
                          THEN [@ EXCEPT ![pc][l] = @ - 1, !["start"][l] = @ + 1]
                          ELSE [@ EXCEPT ![pc][l] = @ - 1]]

\* A connect step that does not check isMounted.
ConnectedIgnoresMounted(h, m, serverId, language) ==
    [h EXCEPT !.serverIdRef = serverId,
              !.languageRef = language,
              !.serverId = serverId,
              !.isConnected = TRUE,
              !.isLoading = FALSE]

\* Lines 511-522 and the finally block: the refs and state of a hook whose
\* activation obtained serverId (unchanged when isMounted is false).
Connected(h, m, serverId, language) ==
    IF m THEN [h EXCEPT !.serverIdRef = serverId,
                        !.languageRef = language,
                        !.serverId = serverId,
                        !.isConnected = TRUE,
                        !.isLoading = FALSE]
         ELSE h

\* An error path that leaves isLoading set.
FailedKeepsLoading(h, m, message) ==
    IF m THEN [h EXCEPT !.error = message] ELSE h

\* An error path that does not check isMounted.
FailedIgnoresMounted(h, m, message) ==
    [h EXCEPT !.error = message, !.isLoading = FALSE]

\* Lines 457-470, 524-532: an activation that ends with an error message.
Failed(h, m, message) ==
    IF m THEN [h EXCEPT !.error = message, !.isLoading = FALSE] ELSE h

\* The reference the activation acquired is marked on the hook instance,
\* whether or not the activation is still mounted.
MarkIncremented(h) == [h EXCEPT !.hasIncrementedRefRef = TRUE]

\* An activation that never looks for a connection to reuse.
TriesReuseNever(existing) == FALSE

\* Line 482: is there a connection for the key to try to reuse?
TriesReuse(existing) == existing # NoConn

\* An activation that ignores the result of incrementRefCount.
ReuseSucceedsAlways(rc, existing) == TRUE

\* An activation that treats every connection found as stale.
ReuseSucceedsNever(rc, existing) == FALSE

\* Lines 484-485: the reuse succeeds when incrementRefCount returned true.
ReuseSucceeds(rc, existing) == incrementRefCountOk(rc, existing.serverId)

\* A reuse that forgets to take the reference.
AcquireExistingNoIncrement(rc, existing) == rc

\* Line 484: the registry after the activation tried to take a reference.
AcquireExisting(rc, existing) == incrementRefCount(rc, existing.serverId)

\* getServerStatus resolved with available = false; canDownload is the
\* flag it carried.
StatusUnavailable(v, m, l, canDownload) ==
    /\ InFlight(v, m, l, "status")
    /\ pendingDownloads' = IF canDownload
                           THEN addPendingDownload(pendingDownloads, l)
                           ELSE pendingDownloads
    /\ hook' = [hook EXCEPT ![v] =
                  Failed(@, m, IF canDownload
                               THEN "not installed, click to install"
                               ELSE "not available, please install")]
    /\ Moves(v, m, l, "status",
             IF canDownload THEN "downloadable" ELSE "unavailable")
    /\ UNCHANGED <<refCount, srvLang, nextId, cm, cfg,
                   openPending, held, regSrv, purged, racing, changes, call, sideVars>>

\* getServerStatus rejected: the catch block.
StatusThrows(v, m, l) ==
    /\ InFlight(v, m, l, "status")
    /\ hook' = [hook EXCEPT ![v] = Failed(@, m, "status check failed")]
    /\ Moves(v, m, l, "status", "statusError")
    /\ UNCHANGED <<refCount, srvLang, nextId, cm,
                   pendingDownloads, cfg, openPending, held, regSrv, purged, racing, changes, call, sideVars>>

\* getServerStatus resolved with available = true and the connection found
\* for the key was reused: incrementRefCount returned true.
StatusReuse(v, m, l) ==
    /\ InFlight(v, m, l, "status")
    /\ LET existing == getConnectionByRoot(cm, WorkspaceRoot, l)
           sid == existing.serverId
       IN  /\ TriesReuse(existing)
           /\ ReuseSucceeds(refCount, existing)
           /\ refCount' = AcquireExisting(refCount, existing)
           /\ held' = [held EXCEPT ![v][sid] = @ + 1]
           /\ hook' = [hook EXCEPT ![v] = Connected(MarkIncremented(@), m, sid, l)]
           /\ cm' = IF m THEN register(cm, cfg[v], sid, l, WorkspaceRoot) ELSE cm
           /\ regSrv' = IF m THEN [regSrv EXCEPT ![v] = sid] ELSE regSrv
    /\ Moves(v, m, l, "status", "connected")
    /\ UNCHANGED <<srvLang, nextId, pendingDownloads, cfg,
                   openPending, purged, racing, changes, call, sideVars>>

\* getServerStatus resolved with available = true and no connection could
\* be reused (none found, or incrementRefCount returned false and the stale
\* entry was purged): startServer is called.
StatusStart(v, m, l) ==
    /\ InFlight(v, m, l, "status")
    /\ LET existing == getConnectionByRoot(cm, WorkspaceRoot, l)
       IN  IF TriesReuse(existing)
           THEN /\ ~ReuseSucceeds(refCount, existing)
                /\ refCount' = AcquireExisting(refCount, existing)
                /\ cm' = unregisterServer(cm, existing.serverId)
                /\ purged' = IF m THEN [purged EXCEPT ![v] = existing.serverId]
                             ELSE purged
           ELSE UNCHANGED <<refCount, cm, purged>>
    /\ LET others == {w \in Views \ {v} : cfg[w] \in Files /\ cur[w] = "start"}
       IN  racing' = IF m /\ others # {} THEN racing \cup others \cup {v}
                     ELSE racing
    /\ Moves(v, m, l, "status", "start")
    /\ UNCHANGED <<srvLang, nextId, pendingDownloads,
                   cfg, hook, openPending, held, regSrv, changes, call, sideVars>>

\* startServer resolved with a fresh serverId whose refCount is 1.
StartResolves(v, m, l) ==
    /\ InFlight(v, m, l, "start")
    /\ nextId \in ServerIds
    /\ LET sid == nextId
       IN  /\ refCount' = [refCount EXCEPT ![sid] = 1]
           /\ srvLang' = [srvLang EXCEPT ![sid] = l]
           /\ held' = [held EXCEPT ![v][sid] = @ + 1]
           /\ hook' = [hook EXCEPT ![v] = Connected(MarkIncremented(@), m, sid, l)]
           /\ cm' = IF m THEN register(cm, cfg[v], sid, l, WorkspaceRoot) ELSE cm
           /\ regSrv' = IF m THEN [regSrv EXCEPT ![v] = sid] ELSE regSrv
    /\ nextId' = nextId + 1
    /\ Moves(v, m, l, "start", "connected")
    /\ UNCHANGED <<pendingDownloads, cfg, openPending, purged, racing, changes, call, sideVars>>

\* startServer rejected: the catch block.
StartThrows(v, m, l) ==
    /\ InFlight(v, m, l, "start")
    /\ hook' = [hook EXCEPT ![v] = Failed(@, m, "failed to start")]
    /\ Moves(v, m, l, "start", "startFailed")
    /\ UNCHANGED <<refCount, srvLang, nextId, cm,
                   pendingDownloads, cfg, openPending, held, regSrv, purged, racing, changes, call, sideVars>>

\* ------------------------------------------------------------------------
\* openDocument
\* ------------------------------------------------------------------------

\* The filePath option of the hook under the view's configuration.
FilePathOf(c) == IF c \in Files THEN c ELSE NoFile

\* openDocument up to its await: it throws without a connection, returns at
\* once when the document is already open for this file, and otherwise
\* forwards the call to lspService.
openDocumentOutcome(h, filePath) ==
    IF h.serverIdRef = NoServer \/ filePath = NoFile \/ h.languageRef = NoLang
    THEN "throws"
    ELSE IF h.isDocumentOpenRef /\ h.filePathRef = filePath THEN "returns"
    ELSE "forwarded"

\* A protocol call that is forwarded whatever the refs hold.
guardedCallOutcomeUnguarded(h) == "forwarded"

\* updateDocument, closeDocument, getHover, getDefinition, getReferences up
\* to their await: without a server or an opened file they return nothing
\* (undefined or null), otherwise the call is forwarded to lspService.
guardedCallOutcome(h) ==
    IF h.serverIdRef = NoServer \/ h.filePathRef = NoFile THEN "returns"
    ELSE "forwarded"

\* openDocument(content) up to `await lspService.openDocument`.
OpenDocumentCall(v) ==
    /\ cfg[v] \in Files
    /\ openDocumentOutcome(hook[v], FilePathOf(cfg[v])) = "forwarded"
    /\ cfg[v] \notin openPending[v]
    /\ openPending' = [openPending EXCEPT ![v] = @ \cup {cfg[v]}]
    /\ UNCHANGED <<refCount, srvLang, nextId, cm,
                   pendingDownloads, cfg, hook, cur, stale, held, regSrv, purged, racing, changes, call, sideVars>>

\* lspService.openDocument resolved: lines 636-637.
OpenDocumentResolves(v, f) ==
    /\ f \in openPending[v]
    /\ openPending' = [openPending EXCEPT ![v] = @ \ {f}]
    /\ hook' = [hook EXCEPT ![v] = [@ EXCEPT !.filePathRef = f,
                                            !.isDocumentOpenRef = TRUE]]
    /\ UNCHANGED <<refCount, srvLang, nextId, cm,
                   pendingDownloads, cfg, cur, stale, held, regSrv, purged, racing, changes, call, sideVars>>

\* lspService.openDocument rejected: the refs are left alone.
OpenDocumentRejects(v, f) ==
    /\ f \in openPending[v]
    /\ openPending' = [openPending EXCEPT ![v] = @ \ {f}]
    /\ UNCHANGED <<refCount, srvLang, nextId, cm,
                   pendingDownloads, cfg, hook, cur, stale, held, regSrv, purged, racing, changes, call, sideVars>>

\* ------------------------------------------------------------------------
\* Specification
\* ------------------------------------------------------------------------

Configs == Files \cup {"disabled", "unmounted"}

Next ==
    \/ \E v \in Views, new \in Configs : SetProps(v, new)
    \/ \E v \in Views, m \in BOOLEAN, l \in Languages :
          \/ \E canDownload \in BOOLEAN : StatusUnavailable(v, m, l, canDownload)
          \/ StatusThrows(v, m, l)
          \/ StatusReuse(v, m, l)
          \/ StatusStart(v, m, l)
          \/ StartResolves(v, m, l)
          \/ StartThrows(v, m, l)
    \/ \E v \in Views : OpenDocumentCall(v)
    \/ \E v \in Views, f \in Files :
          \/ OpenDocumentResolves(v, f)
          \/ OpenDocumentRejects(v, f)

Spec == Init /\ [][Next]_vars

\* ------------------------------------------------------------------------
\* The LspConnectionManager on its own: any caller, any arguments
\* ------------------------------------------------------------------------

\* Number of distinct serverIds the callers pass.
MaxCmServers == 2

CmServerIds == 1..MaxCmServers

CmLanguages == {"typescript", "rust"}

\* The root enters the manager only through the key it forms with the
\* language; the keys differ by language.
CmRoots == {WorkspaceRoot}

CmKeys == {KeyOf(r, l) : r \in CmRoots, l \in CmLanguages}

hookVars == <<refCount, srvLang, nextId, pendingDownloads, cfg, hook, cur,
              stale, openPending, held, regSrv, purged, racing, changes>>

IdleHooks ==
    /\ refCount = [s \in ServerIds |-> 0]
    /\ srvLang = [s \in ServerIds |-> NoLang]
    /\ nextId = 1
    /\ pendingDownloads = <<>>
    /\ cfg = [v \in Views |-> "disabled"]
    /\ cur = [v \in Views |-> "none"]
    /\ stale = [v \in Views |-> NoStale]
    /\ openPending = [v \in Views |-> {}]
    /\ held = [v \in Views |-> [s \in ServerIds |-> 0]]
    /\ regSrv = [v \in Views |-> NoServer]
    /\ purged = [v \in Views |-> NoServer]
    /\ racing = {}
    /\ changes = 0

InitCm ==
    /\ IdleHooks
    /\ hook = [v \in Views |-> InitHook]
    /\ cm = [connections |-> [f \in Files |-> NoConn],
             serverReferences |-> [k \in CmKeys |-> NoRefs]]
    /\ call = NoCall
    /\ NoSide

CmCall(op, filePath, serverId, language, rootPath, result) ==
    [op |-> op, view |-> "null", filePath |-> filePath, serverId |-> serverId,
     language |-> language, rootPath |-> rootPath, result |-> result,
     before |-> cm]

CmRegister(filePath, serverId, language, rootPath) ==
    /\ cm' = register(cm, filePath, serverId, language, rootPath)
    /\ call' = CmCall("register", filePath, serverId, language, rootPath, "void")
    /\ UNCHANGED <<hookVars, sideVars>>

CmUnregister(filePath) ==
    /\ cm' = unregister(cm, filePath)
    /\ call' = CmCall("unregister", filePath, NoServer, NoLang, "null",
                      IF unregisterReturns(cm, filePath) THEN "true" ELSE "false")
    /\ UNCHANGED <<hookVars, sideVars>>

CmUnregisterServer(serverId) ==
    /\ cm' = unregisterServer(cm, serverId)
    /\ call' = CmCall("unregisterServer", NoFile, serverId, NoLang, "null", "void")
    /\ UNCHANGED <<hookVars, sideVars>>

CmClear ==
    /\ cm' = clear(cm)
    /\ call' = CmCall("clear", NoFile, NoServer, NoLang, "null", "void")
    /\ UNCHANGED <<hookVars, sideVars>>

NextCm ==
    \/ \E f \in Files, s \in CmServerIds, l \in CmLanguages, r \in CmRoots :
          CmRegister(f, s, l, r)
    \/ \E f \in Files : CmUnregister(f)
    \/ \E s \in CmServerIds : CmUnregisterServer(s)
    \/ CmClear

SpecCm == InitCm /\ [][NextCm]_vars

\* ------------------------------------------------------------------------
\* The protocol calls of one hook instance, over any contents of its refs
\* ------------------------------------------------------------------------

CallerView == "A"

GuardedCalls == {"updateDocument", "closeDocument", "getHover",
                 "getDefinition", "getReferences"}

InitCalls ==
    /\ IdleHooks
    /\ cm = EmptyCm
    /\ call = NoCall
    /\ NoSide
    /\ \E sid \in {NoServer} \cup ServerIds,
          fp \in {NoFile} \cup Files,
          lang \in {NoLang} \cup Languages,
          open \in BOOLEAN :
          hook = [v \in Views |->
                    IF v = CallerView
                    THEN [InitHook EXCEPT !.serverIdRef = sid,
                                          !.filePathRef = fp,
                                          !.languageRef = lang,
                                          !.isDocumentOpenRef = open]
                    ELSE InitHook]

ProtocolCall(v, op, filePath, result) ==
    [op |-> op, view |-> v, filePath |-> filePath,
     serverId |-> hook[v].serverIdRef, language |-> hook[v].languageRef,
     rootPath |-> "null", result |-> result, before |-> EmptyCm]

\* The view calls openDocument while the hook's filePath option is filePath.
CallOpenDocument(v, filePath) ==
    /\ call' = ProtocolCall(v, "openDocument", filePath,
                            openDocumentOutcome(hook[v], filePath))
    /\ UNCHANGED <<hookVars, cm, sideVars>>

\* The view calls one of the guarded protocol calls.
CallGuarded(v, op) ==
    /\ call' = ProtocolCall(v, op, hook[v].filePathRef,
                            guardedCallOutcome(hook[v]))
    /\ UNCHANGED <<hookVars, cm, sideVars>>

NextCalls ==
    \/ \E filePath \in {NoFile} \cup Files :
          CallOpenDocument(CallerView, filePath)
    \/ \E op \in GuardedCalls : CallGuarded(CallerView, op)

SpecCalls == InitCalls /\ [][NextCalls]_vars

\* ------------------------------------------------------------------------
\* Diagnostics: the onDiagnostics subscription of useLsp and the store's
\* setDiagnostics, applied to one event under any settings and views
\* ------------------------------------------------------------------------

\* Number of diagnostics in one event.
MaxDiags == 1

DiagFiles == {"a.ts", "main.rs"}

DiagLanguages == {"typescript", "rust"}

\* A diagnostic is represented by its protocol severity; NoSeverity is a
\* diagnostic whose severity is absent.
NoSeverity == 0

Severities == 0..4

DiagnosticLists == UNION {[1..k -> Severities] : k \in 0..MaxDiags}

\* A URI is a path with or without the file:// prefix.
Uris == {[scheme |-> sc, path |-> f] : sc \in {"file://", ""}, f \in DiagFiles}

\* uriToFilePath of lsp-protocol.
uriToFilePath(uri) == uri.path

\* Line 564: uri.startsWith('file://') ? uri.slice(7) : uri.
diagnosticFilePathOf(uri) == uri.path

\* severityToString of lsp-protocol.
severityToString(n) ==
    CASE n = 1 -> "error"
      [] n = 2 -> "warning"
      [] n = 3 -> "info"
      [] n = 4 -> "hint"
      [] OTHER -> "error"

\* A mapping without the default case: any other input is taken for an
\* error.
mapLspSeverityNoDefault(n) ==
    CASE n = 1 -> "Error"
      [] n = 2 -> "Warning"
      [] n = 3 -> "Info"
      [] n = 4 -> "Hint"
      [] OTHER -> "Error"

\* Lines 321-337: protocol severity to monaco.MarkerSeverity.
mapLspSeverity(n) ==
    CASE n = 1 -> "Error"
      [] n = 2 -> "Warning"
      [] n = 3 -> "Info"
      [] n = 4 -> "Hint"
      [] OTHER -> "Info"

\* The filter of setDiagnostics, on a converted diagnostic.
storeKeeps(settings, severity) ==
    CASE severity = "error"   -> settings.showErrors
      [] severity = "warning" -> settings.showWarnings
      [] severity = "info"    -> settings.showInfo
      [] severity = "hint"    -> settings.showHints
      [] OTHER -> TRUE

\* The filter of the subscription, on a protocol diagnostic.
markerKept(settings, n) ==
    CASE n = 1 -> settings.showErrors
      [] n = 2 -> settings.showWarnings
      [] n = 3 -> settings.showInfo
      [] n = 4 -> settings.showHints
      [] OTHER -> TRUE

\* Array.prototype.filter followed by map, on the converted elements.
RECURSIVE FilterSeq(_, _)
FilterSeq(xs, keep) ==
    IF xs = <<>> THEN <<>>
    ELSE IF keep[Head(xs)] THEN <<Head(xs)>> \o FilterSeq(Tail(xs), keep)
    ELSE FilterSeq(Tail(xs), keep)

StoreSeverities == {"error", "warning", "info", "hint"}

\* Lines 262-272: the converted diagnostics (d.severity || 1).
lspDiagnosticsOf(ds) ==
    [i \in 1..Len(ds) |->
        severityToString(IF ds[i] = NoSeverity THEN 1 ELSE ds[i])]

filteredDiagnosticsOf(settings, ds) ==
    FilterSeq(lspDiagnosticsOf(ds),
              [sv \in StoreSeverities |-> storeKeeps(settings, sv)])

Occurrences(xs, x) == Cardinality({i \in 1..Len(xs) : xs[i] = x})

countDiagnostics(xs) ==
    [errors   |-> Occurrences(xs, "error"),
     warnings |-> Occurrences(xs, "warning"),
     info     |-> Occurrences(xs, "info"),
     hints    |-> Occurrences(xs, "hint")]

updateCounts(current, oldFileCounts, newFileCounts) ==
    [errors   |-> current.errors - oldFileCounts.errors + newFileCounts.errors,
     warnings |-> current.warnings - oldFileCounts.warnings
                    + newFileCounts.warnings,
     info     |-> current.info - oldFileCounts.info + newFileCounts.info,
     hints    |-> current.hints - oldFileCounts.hints + newFileCounts.hints]

NoDiagnostics == [present |-> FALSE, list |-> <<>>]

EmptyStore ==
    [diagnosticsByFile |-> [f \in DiagFiles |-> NoDiagnostics],
     diagnosticsCounts |-> countDiagnostics(<<>>)]

\* A setDiagnostics that adds the new diagnostics to those stored.
setDiagnosticsAppends(store, settings, uri, ds) ==
    LET filePath == uriToFilePath(uri)
        filteredDiagnostics == filteredDiagnosticsOf(settings, ds)
        oldDiagnostics == store.diagnosticsByFile[filePath].list
    IN  [diagnosticsByFile |->
            [store.diagnosticsByFile EXCEPT
                ![filePath] = [present |-> TRUE,
                               list |-> oldDiagnostics \o filteredDiagnostics]],
         diagnosticsCounts |->
            updateCounts(store.diagnosticsCounts,
                         countDiagnostics(<<>>),
                         countDiagnostics(filteredDiagnostics))]

\* useLspStore.setDiagnostics.
setDiagnostics(store, settings, uri, ds) ==
    LET filePath == uriToFilePath(uri)
        filteredDiagnostics == filteredDiagnosticsOf(settings, ds)
        oldDiagnostics == store.diagnosticsByFile[filePath].list
    IN  [diagnosticsByFile |->
            [store.diagnosticsByFile EXCEPT
                ![filePath] = [present |-> TRUE, list |-> filteredDiagnostics]],
         diagnosticsCounts |->
            updateCounts(store.diagnosticsCounts,
                         countDiagnostics(oldDiagnostics),
                         countDiagnostics(filteredDiagnostics))]

\* Lines 581-611: the markers made of the diagnostics of an event.
markersOf(settings, ds) ==
    LET kept == FilterSeq(ds, [n \in Severities |-> markerKept(settings, n)])
    IN  [i \in 1..Len(kept) |-> mapLspSeverity(kept[i])]

\* A subscription that takes every event as one for the view's file.
otherFileNever(diagnosticFilePath, filePath) == FALSE

\* Line 565: the event is for another file than the view's.
otherFile(diagnosticFilePath, filePath) == diagnosticFilePath # filePath

\* A subscription that does not compare languages.
languageMismatchNever(diagnosticLang, currentLang) == FALSE

\* Line 572: both languages are known and they differ.
languageMismatch(diagnosticLang, currentLang) ==
    /\ diagnosticLang # NoLang
    /\ currentLang # NoLang
    /\ diagnosticLang # currentLang

\* Lines 554-576: does the subscription of this view reach setModelMarkers?
appliesMarkers(settings, view, uri) ==
    /\ view.editor
    /\ view.filePath # NoFile
    /\ settings.showDiagnostics
    /\ ~otherFile(diagnosticFilePathOf(uri), view.filePath)
    /\ ~languageMismatch(getLanguageIdForPath(diagnosticFilePathOf(uri)),
                         view.languageRef)

NoMarkers == [set |-> FALSE, list |-> <<>>]

NoEvent == [uri |-> [scheme |-> "", path |-> NoFile], diagnostics |-> <<>>]

\* The listeners of lspService.onDiagnostics: the views whose hook is
\* enabled.
Subscribers == {v \in Views : diag.views[v].enabled}

\* setDiagnostics called once by each of n subscribed views.
RECURSIVE forwarded(_, _, _, _, _)
forwarded(store, settings, uri, ds, n) ==
    IF n = 0 THEN store
    ELSE forwarded(setDiagnostics(store, settings, uri, ds), settings, uri, ds,
                   n - 1)

DiagSettings ==
    [showDiagnostics : BOOLEAN, showErrors : BOOLEAN, showWarnings : BOOLEAN,
     showInfo : BOOLEAN, showHints : BOOLEAN]

\* The hook instances: view A with any options and languageRef, view B
\* with an editor, connected for the language of its file.
DiagViews ==
    {vs \in [Views -> [enabled : BOOLEAN, editor : BOOLEAN,
                       filePath : DiagFiles \cup {NoFile},
                       languageRef : DiagLanguages \cup {NoLang}]] :
        /\ vs["B"].editor
        /\ vs["B"].filePath # "main.rs"
        /\ vs["B"].languageRef = getLanguageIdForPath(vs["B"].filePath)}

InitDiag ==
    /\ IdleHooks
    /\ hook = [v \in Views |-> InitHook]
    /\ cm = EmptyCm
    /\ call = NoCall
    /\ doc = NoDoc
    /\ keepAwake = NoKeepAwake
    /\ \E settings \in DiagSettings, vs \in DiagViews :
          diag = [settings |-> settings,
                  views    |-> vs,
                  store    |-> EmptyStore,
                  markers  |-> [v \in Views |-> NoMarkers],
                  event    |-> NoEvent]

\* lspService delivers one diagnostics event to every listener.
DiagnosticsEvent(uri, ds) ==
    /\ diag.event = NoEvent
    /\ diag' = [diag EXCEPT
          !.event = [uri |-> uri, diagnostics |-> ds],
          !.store = forwarded(@, diag.settings, uri, ds,
                              Cardinality(Subscribers)),
          !.markers = [v \in Views |->
              IF v \in Subscribers
                 /\ appliesMarkers(diag.settings, diag.views[v], uri)
              THEN [set |-> TRUE, list |-> markersOf(diag.settings, ds)]
              ELSE diag.markers[v]]]
    /\ UNCHANGED <<hookVars, cm, call, doc, keepAwake>>

NextDiag == \E uri \in Uris, ds \in DiagnosticLists : DiagnosticsEvent(uri, ds)

SpecDiag == InitDiag /\ [][NextDiag]_vars

\* ------------------------------------------------------------------------
\* Keep-awake manager (services/keep-awake-manager), with the execution
\* store it subscribes to and the backend behind keepAwakeService
\* ------------------------------------------------------------------------

\* Bounds: the largest number of running tasks and the number of changes of
\* the running count.
MaxRunning == 2

MaxEmits == 3

\* The manager before start() and after stop(), over an execution store
\* with `running` running tasks and a backend ref-count of `backend`.
StoppedManager(running, backend) ==
    [started   |-> FALSE,       \* start() was called and stop() was not
     listeners |-> 0,           \* subscriptions on the execution store
     running   |-> running,     \* executionState.runningCount
     runningCount |-> 0,        \* getSnapshot().runningCount
     refCount  |-> 0,           \* the manager's mirror of the backend count
     synced    |-> FALSE,       \* getRefCount() of this start has resolved
     pending   |-> "none",      \* the service call in flight
     backend   |-> backend,     \* KeepAwakeState.ref_count
     atStart   |-> 0,           \* history: the count getRefCount() returned
     acquires  |-> 0,           \* history: acquire() calls since start()
     releases  |-> 0,           \* history: release() calls since start()
     raced     |-> FALSE,       \* history: a change arrived during a call
     again     |-> FALSE,       \* history: start() was called while started
     notified  |-> 0,           \* history: listeners the last change reached
     emits     |-> 0,           \* changes of the running count so far
     op        |-> "none"]      \* the last operation

\* The manager applies the delta one call at a time: acquire() while the
\* mirror is below the running count, release() while it is above.
reconcile(k) ==
    IF ~k.synced \/ k.pending # "none" THEN k
    ELSE IF k.refCount < k.runningCount
    THEN [k EXCEPT !.pending = "acquire", !.acquires = @ + 1,
                   !.backend = @ + 1]
    ELSE IF k.refCount > k.runningCount
    THEN [k EXCEPT !.pending = "release", !.releases = @ + 1,
                   !.backend = IF @ > 0 THEN @ - 1 ELSE 0]
    ELSE k

\* mockExecutionStore.subscribe: one more listener.
subscribe(k) == [k EXCEPT !.listeners = @ + 1]

\* A start() that subscribes again although the manager is started.
startAgainSubscribes(k) == subscribe(k)

\* start() on a started manager: nothing.
startAgain(k) == k

\* start(): subscribe, take the current running count and ask the backend
\* for its ref-count.
start(k) ==
    IF k.started THEN startAgain(k)
    ELSE [subscribe(k) EXCEPT
             !.started = TRUE, !.runningCount = k.running,
             !.synced = FALSE, !.pending = "getRefCount",
             !.atStart = 0, !.acquires = 0, !.releases = 0,
             !.raced = FALSE]

\* stop(): unsubscribe and reset the state; the result of a call in flight
\* is ignored.
stop(k) ==
    [k EXCEPT !.started = FALSE, !.listeners = 0, !.runningCount = 0,
              !.refCount = 0, !.synced = FALSE, !.pending = "none"]

\* A listener that ignores a change arriving while a call is in flight.
observeWhenFree(k, n) ==
    IF k.pending # "none" THEN k ELSE reconcile([k EXCEPT !.runningCount = n])

\* The manager's listener: take the new running count and reconcile.
observe(k, n) == reconcile([k EXCEPT !.runningCount = n])

\* emit: the execution store calls every listener with the new state.
RECURSIVE emit(_, _, _)
emit(k, n, listeners) ==
    IF listeners = 0 THEN k ELSE emit(observe(k, n), n, listeners - 1)

\* The call in flight resolved.
resolved(k) ==
    CASE k.pending = "getRefCount" ->
            reconcile([k EXCEPT !.pending = "none", !.synced = TRUE,
                                !.refCount = k.backend,
                                !.atStart = k.backend])
      [] k.pending = "acquire" ->
            reconcile([k EXCEPT !.pending = "none", !.refCount = @ + 1])
      [] k.pending = "release" ->
            reconcile([k EXCEPT !.pending = "none", !.refCount = @ - 1])

\* waitForIdle() resolves: started, synced and no call in flight.
Idle(k) == k.started /\ k.synced /\ k.pending = "none"

InitKeepAwake ==
    /\ IdleHooks
    /\ hook = [v \in Views |-> InitHook]
    /\ cm = EmptyCm
    /\ call = NoCall
    /\ diag = NoDiag
    /\ doc = NoDoc
    /\ \E running \in 0..MaxRunning, backend \in 0..1 :
          keepAwake = StoppedManager(running, backend)

KeepAwakeFrame == UNCHANGED <<hookVars, cm, call, diag, doc>>

KaStart ==
    /\ keepAwake' = [start(keepAwake) EXCEPT
                        !.again = @ \/ keepAwake.started, !.op = "start"]
    /\ KeepAwakeFrame

KaStop ==
    /\ keepAwake' = [stop(keepAwake) EXCEPT !.again = FALSE, !.op = "stop"]
    /\ KeepAwakeFrame

\* A task starts or ends: the running count changes and the store emits.
KaRunningChange(n) ==
    /\ keepAwake.emits < MaxEmits
    /\ n # keepAwake.running
    /\ keepAwake' =
          [emit([keepAwake EXCEPT !.running = n], n, keepAwake.listeners)
             EXCEPT !.emits = @ + 1,
                    !.notified = keepAwake.listeners,
                    !.raced = @ \/ (keepAwake.started
                                    /\ keepAwake.pending # "none"),
                    !.op = "change"]
    /\ KeepAwakeFrame

KaResolves ==
    /\ keepAwake.pending # "none"
    /\ keepAwake' = [resolved(keepAwake) EXCEPT !.op = "resolve"]
    /\ KeepAwakeFrame

NextKeepAwake ==
    \/ KaStart
    \/ KaStop
    \/ \E n \in 0..MaxRunning : KaRunningChange(n)
    \/ KaResolves

SpecKeepAwake == InitKeepAwake /\ [][NextKeepAwake]_vars

\* ------------------------------------------------------------------------
\* Document notifications of one connected view: openDocument,
\* updateDocument, closeDocument and the close issued by the cleanup
\* ------------------------------------------------------------------------

\* Bound: the number of notifications followed.
MaxNotes == 4

\* The file the calling view shows.
DocFile == "a.ts"

\* The document as the server knows it from the notifications sent.
DocumentStates == {"closed", "opening", "open"}

\* A notification sent to the server, with the state the document was in.
Note(kind) == [kind |-> kind, document |-> doc.document]

\* The notifications with one more, and the state the document is in then.
Sent(kind) ==
    [doc EXCEPT
        !.sent = Append(@, Note(kind)),
        !.document = CASE kind = "open"   -> IF @ = "closed" THEN "opening"
                                             ELSE @
                       [] kind = "change" -> @
                       [] kind = "close"  -> "closed",
        !.opening = IF kind = "open" THEN @ + 1 ELSE @,
        !.closing = IF kind = "close" THEN @ + 1 ELSE @]

\* The view is connected: its activation registered DocFile with server 1.
InitDoc ==
    /\ refCount = [s \in ServerIds |-> IF s = 1 THEN 1 ELSE 0]
    /\ srvLang = [s \in ServerIds |->
                    IF s = 1 THEN getLanguageIdForPath(DocFile) ELSE NoLang]
    /\ nextId = 2
    /\ pendingDownloads = <<>>
    /\ cfg = [v \in Views |-> IF v = CallerView THEN DocFile ELSE "disabled"]
    /\ cur = [v \in Views |-> IF v = CallerView THEN "connected" ELSE "none"]
    /\ stale = [v \in Views |-> NoStale]
    /\ openPending = [v \in Views |-> {}]
    /\ held = [v \in Views |->
                 [s \in ServerIds |->
                     IF v = CallerView /\ s = 1 THEN 1 ELSE 0]]
    /\ regSrv = [v \in Views |-> IF v = CallerView THEN 1 ELSE NoServer]
    /\ purged = [v \in Views |-> NoServer]
    /\ racing = {}
    /\ changes = 1
    /\ hook = [v \in Views |->
                 IF v = CallerView
                 THEN Connected(MarkIncremented(
                          [InitHook EXCEPT !.isLoading = TRUE]),
                          TRUE, 1, getLanguageIdForPath(DocFile))
                 ELSE InitHook]
    /\ cm = register(EmptyCm, DocFile, 1, getLanguageIdForPath(DocFile),
                     WorkspaceRoot)
    /\ call = NoCall
    /\ diag = NoDiag
    /\ keepAwake = NoKeepAwake
    /\ doc = [sent |-> <<>>, document |-> "closed",
              opening |-> 0, closing |-> 0]

DocFrame ==
    UNCHANGED <<refCount, srvLang, nextId, pendingDownloads, cfg, cur, stale,
                openPending, held, regSrv, purged, racing, changes, cm, call,
                diag, keepAwake>>

\* openDocument(content) up to `await lspService.openDocument` (line 635).
DocOpenDocument ==
    /\ Len(doc.sent) < MaxNotes
    /\ openDocumentOutcome(hook[CallerView], FilePathOf(cfg[CallerView]))
          = "forwarded"
    /\ doc' = Sent("open")
    /\ UNCHANGED hook
    /\ DocFrame

\* lspService.openDocument resolved: lines 636-637.
DocOpenDocumentResolves ==
    /\ doc.opening > 0
    /\ doc' = [doc EXCEPT !.opening = @ - 1,
                          !.document = IF @ = "opening" THEN "open" ELSE @]
    /\ hook' = [hook EXCEPT ![CallerView] =
                  [@ EXCEPT !.filePathRef = DocFile,
                            !.isDocumentOpenRef = TRUE]]
    /\ DocFrame

\* updateDocument(content): lines 643-649.
DocUpdateDocument ==
    /\ Len(doc.sent) < MaxNotes
    /\ guardedCallOutcome(hook[CallerView]) = "forwarded"
    /\ doc' = Sent("change")
    /\ UNCHANGED hook
    /\ DocFrame

\* closeDocument() up to `await lspService.closeDocument` (line 657).
DocCloseDocument ==
    /\ Len(doc.sent) < MaxNotes
    /\ guardedCallOutcome(hook[CallerView]) = "forwarded"
    /\ doc' = Sent("close")
    /\ UNCHANGED hook
    /\ DocFrame

\* lspService.closeDocument resolved: line 658.
DocCloseDocumentResolves ==
    /\ doc.closing > 0
    /\ doc' = [doc EXCEPT !.closing = @ - 1]
    /\ hook' = [hook EXCEPT ![CallerView] =
                  [@ EXCEPT !.isDocumentOpenRef = FALSE]]
    /\ DocFrame

\* The view is disabled: the effect cleanup runs performCleanup, which
\* closes the document if the hook has it open (lines 397-400).
DocDeactivate ==
    /\ Len(doc.sent) < MaxNotes
    /\ cfg[CallerView] \in Files
    /\ LET c1 == performCleanup(hook[CallerView], cm, refCount)
           c2 == DisabledBranch(c1)
       IN  /\ hook' = [hook EXCEPT ![CallerView] = c2.h]
           /\ cm' = c2.cm
           /\ refCount' = c2.rc
           /\ held' = [held EXCEPT ![CallerView] =
                          Released(Released(@, c1.dec), c2.dec)]
           /\ doc' = IF c1.closed
                     THEN [Sent("close") EXCEPT !.closing = doc.closing]
                     ELSE doc
    /\ cfg' = [cfg EXCEPT ![CallerView] = "disabled"]
    /\ cur' = [cur EXCEPT ![CallerView] = "none"]
    /\ regSrv' = [regSrv EXCEPT ![CallerView] = NoServer]
    /\ changes' = changes + 1
    /\ UNCHANGED <<srvLang, nextId, pendingDownloads, stale, openPending,
                   purged, racing, call, diag, keepAwake>>

NextDoc ==
    \/ DocOpenDocument
    \/ DocOpenDocumentResolves
    \/ DocUpdateDocument
    \/ DocCloseDocument
    \/ DocCloseDocumentResolves
    \/ DocDeactivate

SpecDoc == InitDoc /\ [][NextDoc]_vars

\* ------------------------------------------------------------------------
\* useLspStore: the diagnostics actions and the severity settings, under
\* any sequence of calls
\* ------------------------------------------------------------------------

\* The settings of a new store (lines 148-153).
DefaultSettings ==
    [showDiagnostics |-> TRUE, showErrors |-> TRUE, showWarnings |-> TRUE,
     showInfo |-> TRUE, showHints |-> FALSE]

SeverityFlags == {"showErrors", "showWarnings", "showInfo", "showHints"}

\* setShowErrors, setShowWarnings, setShowInfo, setShowHints: the flag is
\* set; the stored diagnostics are left as they are.
setShow(settings, flag, show) == [settings EXCEPT ![flag] = show]

StoreUris == {uri \in Uris : uri.scheme = "file://"}

\* The diagnostics handed to setDiagnostics: errors, warnings, hints and
\* diagnostics without severity.
StoreDiagnosticLists ==
    UNION {[1..k -> {NoSeverity, 1, 2, 4}] : k \in 0..MaxDiags}

\* A clearDiagnostics that forgets the counts.
clearDiagnosticsKeepsCounts(store, uri) ==
    [store EXCEPT !.diagnosticsByFile[uriToFilePath(uri)] = NoDiagnostics]

\* useLspStore.clearDiagnostics.
clearDiagnostics(store, uri) ==
    LET filePath == uriToFilePath(uri)
        oldDiagnostics == store.diagnosticsByFile[filePath]
    IN  IF ~oldDiagnostics.present THEN store
        ELSE [diagnosticsByFile |->
                 [store.diagnosticsByFile EXCEPT ![filePath] = NoDiagnostics],
              diagnosticsCounts |->
                 updateCounts(store.diagnosticsCounts,
                              countDiagnostics(oldDiagnostics.list),
                              countDiagnostics(<<>>))]

\* useLspStore.clearAllDiagnostics.
clearAllDiagnostics(store) == EmptyStore

InitStore ==
    /\ IdleHooks
    /\ hook = [v \in Views |-> InitHook]
    /\ cm = EmptyCm
    /\ call = NoCall
    /\ doc = NoDoc
    /\ keepAwake = NoKeepAwake
    /\ diag = [settings |-> DefaultSettings, store |-> EmptyStore,
               event |-> NoEvent, op |-> "none"]

StoreFrame == UNCHANGED <<hookVars, cm, call, doc, keepAwake>>

StoreSetDiagnostics(uri, ds) ==
    /\ diag' = [diag EXCEPT
                  !.store = setDiagnostics(@, diag.settings, uri, ds),
                  !.event = [uri |-> uri, diagnostics |-> ds],
                  !.op = "setDiagnostics"]
    /\ StoreFrame

StoreClearDiagnostics(uri) ==
    /\ diag' = [diag EXCEPT
                  !.store = clearDiagnostics(@, uri),
                  !.event = [uri |-> uri, diagnostics |-> <<>>],
                  !.op = "clearDiagnostics"]
    /\ StoreFrame

StoreClearAllDiagnostics ==
    /\ diag' = [diag EXCEPT
                  !.store = clearAllDiagnostics(@),
                  !.event = NoEvent,
                  !.op = "clearAllDiagnostics"]
    /\ StoreFrame

StoreSetShow(flag, show) ==
    /\ diag' = [diag EXCEPT
                  !.settings = setShow(@, flag, show),
                  !.event = NoEvent,
                  !.op = "setShow"]
    /\ StoreFrame

NextStore ==
    \/ \E uri \in StoreUris, ds \in StoreDiagnosticLists :
          StoreSetDiagnostics(uri, ds)
    \/ \E uri \in StoreUris : StoreClearDiagnostics(uri)
    \/ StoreClearAllDiagnostics
    \/ \E flag \in SeverityFlags, show \in BOOLEAN : StoreSetShow(flag, show)

SpecStore == InitStore /\ [][NextStore]_vars

\* ------------------------------------------------------------------------
\* mapLspSeverity over the diagnostics of an event (lines 598-609)
\* ------------------------------------------------------------------------

\* Bound: the number of diagnostics mapped at once.
MaxMapped == 2

\* Protocol severities, absent (NoSeverity) and out of range included.
MapInputs == -1..6

InitSeverity ==
    /\ IdleHooks
    /\ hook = [v \in Views |-> InitHook]
    /\ cm = EmptyCm
    /\ call = NoCall
    /\ doc = NoDoc
    /\ keepAwake = NoKeepAwake
    /\ \E ds \in UNION {[1..k -> MapInputs] : k \in 0..MaxMapped} :
          diag = [severities |-> ds, mapped |-> FALSE, markers |-> <<>>]

\* The diagnostics are mapped to markers, one mapLspSeverity call each.
MapSeverities ==
    /\ ~diag.mapped
    /\ diag' = [diag EXCEPT
                  !.mapped = TRUE,
                  !.markers = [i \in 1..Len(diag.severities) |->
                                  mapLspSeverity(diag.severities[i])]]
    /\ UNCHANGED <<hookVars, cm, call, doc, keepAwake>>

NextSeverity == MapSeverities

SpecSeverity == InitSeverity /\ [][NextSeverity]_vars

\* ------------------------------------------------------------------------
\* useLspStore: the pending downloads, under any sequence of calls
\* ------------------------------------------------------------------------

DownloadLanguages == {"typescript", "rust", "go"}

InitDownloads ==
    /\ IdleHooks
    /\ hook = [v \in Views |-> InitHook]
    /\ cm = EmptyCm
    /\ call = NoCall
    /\ NoSide

DownloadsFrame ==
    UNCHANGED <<refCount, srvLang, nextId, cfg, hook, cur, stale, openPending,
                held, regSrv, purged, racing, changes, cm, sideVars>>

DownloadCall(op, v, language, result) ==
    [NoCall EXCEPT !.op = op, !.view = v, !.language = language,
                   !.result = result]

\* The activation of view v found the server of the language downloadable
\* (line 455).
AddPendingDownload(v, language) ==
    /\ pendingDownloads' = addPendingDownload(pendingDownloads, language)
    /\ call' = DownloadCall("addPendingDownload", v, language,
                  IF pendingDownloads' = pendingDownloads
                  THEN "present" ELSE "added")
    /\ DownloadsFrame

RemovePendingDownload(language) ==
    /\ pendingDownloads' = removePendingDownload(pendingDownloads, language)
    /\ call' = DownloadCall("removePendingDownload", NoCall.view, language,
                  IF pendingDownloads' = pendingDownloads
                  THEN "absent" ELSE "removed")
    /\ DownloadsFrame

ClearPendingDownloads ==
    /\ pendingDownloads' = clearPendingDownloads(pendingDownloads)
    /\ call' = DownloadCall("clearPendingDownloads", NoCall.view, NoLang, "void")
    /\ DownloadsFrame

NextDownloads ==
    \/ \E v \in Views, language \in DownloadLanguages :
          AddPendingDownload(v, language)
    \/ \E language \in DownloadLanguages : RemovePendingDownload(language)
    \/ ClearPendingDownloads

SpecDownloads == InitDownloads /\ [][NextDownloads]_vars

\* ------------------------------------------------------------------------
\* Properties
\* ------------------------------------------------------------------------

\* The view's effect dependencies change in this step: its cleanup runs.
Deactivates(v) == cfg[v] \in Files /\ cfg'[v] # cfg[v]

\* C1: a server is never terminated (its refCount never reaches 0) while a
\* view is connected to it, that is, while the view's serverIdRef names it
\* or the view registered a FileConnection with it and has not yet run its
\* cleanup.
C1_NoKillWhileConnected ==
    \A v \in Views :
        /\ hook[v].serverIdRef # NoServer => refCount[hook[v].serverIdRef] > 0
        /\ regSrv[v] # NoServer => refCount[regSrv[v]] > 0

\* A view is connected to a server that another view was connected to and
\* has released; the server is alive on the remaining reference.
C1_Witness ==
    \E v, w \in Views :
        /\ v # w
        /\ regSrv[v] # NoServer
        /\ hook[v].serverIdRef = regSrv[v]
        /\ hook[w].serverId = regSrv[v]
        /\ regSrv[w] = NoServer
        /\ cfg[w] \notin Files
        /\ held[w][regSrv[v]] = 0
        /\ refCount[regSrv[v]] = 1

\* C2 (as claimed): once a view is unmounted and none of its activations is
\* in flight any more, no server keeps a reference on its behalf.
C2_NoReferenceLeftBehind ==
    \A v \in Views :
        (cfg[v] = "unmounted" /\ stale[v] = NoStale)
            => \A s \in ServerIds : held[v][s] = 0

\* C3: per view and server, the decrementRefCount calls issued never exceed
\* the references acquired; a repeated cleanup, or one with nothing acquired,
\* issues none.
C3_NoOverRelease ==
    \A v \in Views : \A s \in ServerIds : held[v][s] >= 0

\* A view that was connected has been disabled: its cleanup ran, the
\* reference it held is released, and nothing more was decremented.
C3_Witness ==
    \E v \in Views :
        /\ cfg[v] = "disabled"
        /\ hook[v].serverId # NoServer
        /\ hook[v].serverIdRef = NoServer
        /\ ~hook[v].hasIncrementedRefRef
        /\ held[v][hook[v].serverId] = 0
        /\ refCount[hook[v].serverId] = 0

\* C4: when a view that registered a FileConnection is deactivated, exactly
\* one decrementRefCount is issued, against the serverId it registered.
C4_OneReleasePerConnection ==
    [][\A v \in Views :
          (regSrv[v] # NoServer /\ Deactivates(v))
              => /\ held'[v] = [held[v] EXCEPT ![regSrv[v]] = @ - 1]
                 /\ refCount' = [refCount EXCEPT ![regSrv[v]] = @ - 1]]_vars

\* A view that registered a FileConnection has been unmounted and holds no
\* reference any more.
C4_Witness ==
    \E v \in Views :
        /\ cfg[v] = "unmounted"
        /\ hook[v].isConnected
        /\ hook[v].serverId # NoServer
        /\ stale[v] = NoStale
        /\ \A s \in ServerIds : held[v][s] = 0

\* The connection getConnectionByRoot returns for a language now.
Existing(l) == getConnectionByRoot(cm, WorkspaceRoot, l)

\* The mounted activation of v leaves the status check for pc2.
MountedStatusStep(v, l, pc2) ==
    /\ cfg[v] \in Files
    /\ l = getLanguageIdForPath(cfg[v])
    /\ cur[v] = "status"
    /\ cur'[v] = pc2

\* A superseded activation of v leaves the status check.
StaleStatusStep(v, l) == stale'[v].status[l] < stale[v].status[l]

\* A superseded activation of v goes from the status check to startServer.
StaleStartCall(v, l) ==
    StaleStatusStep(v, l) /\ stale'[v].start[l] > stale[v].start[l]

\* C5: an activation whose lookup finds a serverId on which
\* incrementRefCount succeeds uses that serverId, raises its refCount by
\* exactly one and does not call startServer.
C5_ReuseTakesOneReference ==
    [][\A v \in Views, l \in Languages :
          LET sid   == Existing(l).serverId
              found == Existing(l) # NoConn /\ refCount[sid] > 0
          IN  /\ (found /\ (MountedStatusStep(v, l, "connected")
                            \/ MountedStatusStep(v, l, "start")))
                    => /\ cur'[v] = "connected"
                       /\ hook'[v].serverIdRef = sid
                       /\ hook'[v].serverId = sid
                       /\ regSrv'[v] = sid
                       /\ cm'.connections[cfg[v]].serverId = sid
                       /\ refCount' = [refCount EXCEPT ![sid] = @ + 1]
                       /\ nextId' = nextId
              /\ (found /\ StaleStatusStep(v, l)
                        /\ (refCount' # refCount \/ StaleStartCall(v, l)))
                    => /\ ~StaleStartCall(v, l)
                       /\ held'[v][sid] = held[v][sid] + 1
                       /\ refCount' = [refCount EXCEPT ![sid] = @ + 1]
                       /\ nextId' = nextId]_vars

\* A view reused the server another view started: one server, refCount 2.
C5_Witness ==
    \E v, w \in Views :
        /\ v # w
        /\ cur[v] = "connected" /\ cur[w] = "connected"
        /\ regSrv[v] = regSrv[w]
        /\ refCount[regSrv[v]] = 2
        /\ nextId = 2

\* C6: when incrementRefCount fails on the serverId found for the key, the
\* activation purges that serverId with unregisterServer and calls
\* startServer without surfacing an error; what it then registers and
\* reports is the serverId startServer returned, never the stale one.
C6_StaleEntryPurgedThenStart ==
    [][\A v \in Views, l \in Languages :
          LET sid == Existing(l).serverId
              staleFound == Existing(l) # NoConn /\ refCount[sid] = 0
          IN  /\ (staleFound /\ (MountedStatusStep(v, l, "connected")
                                 \/ MountedStatusStep(v, l, "start")))
                    => /\ cur'[v] = "start"
                       /\ purged'[v] = sid
                       /\ \A f \in Files : cm'.connections[f].serverId # sid
                       /\ \A k \in Keys : cm'.serverReferences[k].serverId # sid
                       /\ refCount' = refCount
                       /\ hook'[v].error = NoError
              /\ (purged[v] # NoServer /\ cfg[v] \in Files
                    /\ cur[v] = "start" /\ cur'[v] = "connected")
                    => /\ refCount[nextId] = 0 /\ refCount'[nextId] = 1
                       /\ nextId # purged[v]
                       /\ regSrv'[v] = nextId
                       /\ cm'.connections[cfg[v]].serverId = nextId
                       /\ hook'[v].serverIdRef = nextId
                       /\ hook'[v].serverId = nextId
                       /\ hook'[v].error = NoError]_vars

\* A view is connected to a fresh server after purging a stale one.
C6_Witness ==
    \E v \in Views :
        /\ cur[v] = "connected"
        /\ purged[v] # NoServer
        /\ regSrv[v] # purged[v]
        /\ refCount[regSrv[v]] = 1
        /\ refCount[purged[v]] = 0

\* The servers alive for a language (the key, with the one workspace root).
Live(l) == {s \in ServerIds : refCount[s] > 0 /\ srvLang[s] = l}

\* C7 (as claimed): at every instant at most one server per key is live.
C7_AtMostOneLivePerKey ==
    \A l \in Languages : Cardinality(Live(l)) <= 1

\* C7 (amended): an activation calls startServer for a key only when its
\* lookup returned no connection, or one whose server is no longer live.
C7_StartOnlyWithoutLiveEntry ==
    [][\A v \in Views, l \in Languages :
          (MountedStatusStep(v, l, "start") \/ StaleStartCall(v, l))
              => (Existing(l) = NoConn \/ refCount[Existing(l).serverId] = 0)]_vars

\* Two activations passed the lookup before either registered: two servers
\* are live for the key.
C7_Witness ==
    \E l \in Languages : \E v, w \in Views :
        /\ v # w
        /\ cur[v] = "connected" /\ cur[w] = "connected"
        /\ {regSrv[v], regSrv[w]} \subseteq Live(l)
        /\ regSrv[v] # regSrv[w]

\* Views v and w, showing different files of one language, called startServer
\* while the other's call was pending, and each holds exactly the reference
\* of the server its own call returned.
RacedPair(v, w) ==
    /\ v # w
    /\ cur[v] = "connected" /\ cur[w] = "connected"
    /\ {v, w} \subseteq racing
    /\ cfg[v] # cfg[w]
    /\ getLanguageIdForPath(cfg[v]) = getLanguageIdForPath(cfg[w])
    /\ regSrv[v] # regSrv[w]
    /\ \A u \in {v, w} : \A s \in ServerIds :
          held[u][s] = IF s = regSrv[u] THEN 1 ELSE 0

Pending(pd) == {pd[i] : i \in 1..Len(pd)}

\* What an activation that got available = false must not do: take or start
\* a server, or register a FileConnection.
NothingAcquired(v) ==
    /\ refCount' = refCount
    /\ nextId' = nextId
    /\ cm' = cm
    /\ held' = held
    /\ regSrv' = regSrv
    /\ cur'[v] = "start" => cur[v] = "start"
    /\ stale'[v].start = stale[v].start

\* The mounted activation of v got available = false.
MountedUnavailable(v, l) ==
    MountedStatusStep(v, l, "downloadable") \/ MountedStatusStep(v, l, "unavailable")

\* A superseded activation of v got available = false with canDownload, as
\* the PendingDownload it emitted shows.
StaleDownloadable(v, l) ==
    StaleStatusStep(v, l) /\ pendingDownloads' # pendingDownloads

MountedStartFails(v) ==
    cfg[v] \in Files /\ cur[v] = "start" /\ cur'[v] = "startFailed"

\* A superseded activation of v sees startServer fail.
StaleStartFails(v, l) ==
    stale'[v].start[l] < stale[v].start[l] /\ nextId' = nextId

\* What a failed startServer leaves alone: the registry, the connection
\* manager, the references held and every other view.
NothingOrphaned(v) ==
    /\ refCount' = refCount
    /\ cm' = cm
    /\ held' = held
    /\ regSrv' = regSrv
    /\ \A w \in Views \ {v} : hook'[w] = hook[w]

Activated(v, l) == cfg[v] \in Files /\ getLanguageIdForPath(cfg[v]) = l

\* C11 (as claimed): between steps, every FileConnection of the connection
\* manager names a server whose refCount is at least 1, and once no view is
\* activated for a key the manager holds no FileConnection and no index
\* entry for it.
C11_ConnectionsNameLiveServers ==
    /\ \A f \in Files :
          cm.connections[f] # NoConn
              => refCount[cm.connections[f].serverId] >= 1
    /\ \A l \in Languages :
          (\A v \in Views : ~Activated(v, l))
              => /\ \A f \in Files : cm.connections[f].language # l
                 /\ cm.serverReferences[KeyOf(WorkspaceRoot, l)] = NoRefs

\* No activation of any view is in flight and no openDocument is pending.
Quiescent ==
    \A v \in Views :
        /\ cur[v] \notin {"status", "start"}
        /\ stale[v] = NoStale
        /\ openPending[v] = {}

\* C12 (as claimed): whenever nothing is in progress, getFileReferenceCount
\* of every server equals the registry's refCount of that server.
C12_IndexAgreesWithRegistry ==
    Quiescent =>
        \A s \in ServerIds : getFileReferenceCount(cm, s) = refCount[s]

\* The FileConnection that the last register call was asked to record.
Registered == [serverId |-> call.serverId, language |-> call.language,
               rootPath |-> call.rootPath]

\* The number of index entries that list filePath: what filePath adds to
\* getFileReferenceCount, summed over all servers.
TimesCounted(cmgr, filePath) ==
    Cardinality({k \in DOMAIN cmgr.serverReferences :
                    filePath \in cmgr.serverReferences[k].filePaths})

\* C13 (as claimed): a register of a filePath that already has a
\* FileConnection leaves one FileConnection for it, holding the values of
\* this call, and the filePath is counted once over all servers.
C13_ReRegisterCountsOnce ==
    (call.op = "register" /\ call.before.connections[call.filePath] # NoConn)
        => /\ cm.connections[call.filePath] = Registered
           /\ TimesCounted(cm, call.filePath) = 1

\* C14: unregister of a path without FileConnection returns false and
\* changes neither the connections nor the index; the registry is out of
\* the manager's reach.
C14_UnregisterUnknownIsNoOp ==
    (call.op = "unregister" /\ call.before.connections[call.filePath] = NoConn)
        => /\ call.result = "false"
           /\ cm = call.before
           /\ \A s \in ServerIds : refCount[s] = 0

\* unregister was called for a path without FileConnection while another
\* path had one, which is still there.
C14_Witness ==
    /\ call.op = "unregister"
    /\ call.before.connections[call.filePath] = NoConn
    /\ call.result = "false"
    /\ \E f \in Files : f # call.filePath /\ cm.connections[f] # NoConn

\* The files that have a FileConnection under the key of conn.
FilesOfKey(cmgr, conn) ==
    {f \in DOMAIN cmgr.connections :
        /\ cmgr.connections[f] # NoConn
        /\ cmgr.connections[f].rootPath = conn.rootPath
        /\ cmgr.connections[f].language = conn.language}

\* C15 (as claimed): unregister of a registered path removes its
\* FileConnection and returns true exactly when no FileConnection is left
\* for the key; after a true, getConnectionByRoot finds nothing for the key.
C15_UnregisterReportsLast ==
    (call.op = "unregister" /\ call.before.connections[call.filePath] # NoConn)
        => LET conn == call.before.connections[call.filePath]
           IN  /\ cm.connections[call.filePath] = NoConn
               /\ call.result = "true" <=> FilesOfKey(cm, conn) = {}
               /\ call.result = "true" =>
                     getConnectionByRoot(cm, conn.rootPath, conn.language) = NoConn

\* C16 (as claimed): after unregisterServer(S) nothing in the manager names
\* S, and every FileConnection of another server is unchanged and its key,
\* found by getConnectionByRoot before, is still found.
C16_UnregisterServerFrame ==
    call.op = "unregisterServer" =>
        /\ \A f \in Files : cm.connections[f].serverId # call.serverId
        /\ \A k \in CmKeys : cm.serverReferences[k].serverId # call.serverId
        /\ getFileReferenceCount(cm, call.serverId) = 0
        /\ \A f \in Files :
              LET conn == call.before.connections[f]
              IN  (conn # NoConn /\ conn.serverId # call.serverId)
                    => /\ cm.connections[f] = conn
                       /\ getConnectionByRoot(call.before, conn.rootPath,
                                              conn.language) # NoConn
                            => getConnectionByRoot(cm, conn.rootPath,
                                                   conn.language) # NoConn

\* The view is connected and holds the reference of its server.
HoldsReference(v) ==
    /\ hook[v].serverIdRef # NoServer
    /\ hook[v].hasIncrementedRefRef

\* C17 (as claimed): the cleanup of a deactivated view that holds a
\* reference issues closeDocument exactly if the document is open, then
\* unregister of the view's file and decrementRefCount of its server, both
\* always, in one step.
C17_CleanupUnregistersAndDecrements ==
    [][\A v \in Views :
          (Deactivates(v) /\ HoldsReference(v))
              => LET c == performCleanup(hook[v], cm, refCount)
                 IN  /\ c.closed = hook[v].isDocumentOpenRef
                     /\ c.unreg = cfg[v]
                     /\ c.dec = hook[v].serverIdRef
                     /\ refCount'[c.dec] = refCount[c.dec] - 1]_vars

\* The activations of view v that are suspended at an await: the mounted
\* one and the superseded ones.
RECURSIVE Superseded(_, _)
Superseded(v, ls) ==
    IF ls = {} THEN 0
    ELSE LET l == CHOOSE x \in ls : TRUE
         IN  stale[v].status[l] + stale[v].start[l] + Superseded(v, ls \ {l})

Suspended(v) ==
    (IF cfg[v] \in Files /\ cur[v] \in {"status", "start"} THEN 1 ELSE 0)
    + Superseded(v, Languages)

\* C18 (as claimed): a view never has more than one activation in flight.
C18_OneActivationInFlight ==
    \A v \in Views : Suspended(v) <= 1

\* The view's FileConnection for the file it shows is registered with the
\* server of its serverIdRef.
RegisteredFor(v, h, cmgr) ==
    /\ cfg[v] \in Files
    /\ h.serverIdRef # NoServer
    /\ cmgr.connections[cfg[v]].serverId = h.serverIdRef

\* C19 (as claimed): a view that reports isConnected has registered its
\* FileConnection and has its document open.
C19_ConnectedOnlyAfterOpen ==
    \A v \in Views :
        hook[v].isConnected
            => /\ RegisteredFor(v, hook[v], cm)
               /\ hook[v].isDocumentOpenRef

\* C19 (amended): isConnected turns true only in the step that registers
\* the view's FileConnection with a live server it holds a reference of;
\* opening the document is a separate call, forwarded to the server only
\* when the view has a server, and the document is marked open only when
\* such a call resolves.
C19_ConnectedOnceRegistered ==
    [][\A v \in Views :
          /\ (hook'[v].isConnected /\ ~hook[v].isConnected)
                => /\ RegisteredFor(v, hook'[v], cm')
                   /\ regSrv'[v] = hook'[v].serverIdRef
                   /\ held'[v][hook'[v].serverIdRef] >= 1
                   /\ refCount'[hook'[v].serverIdRef] >= 1
                   /\ hook'[v].isDocumentOpenRef = hook[v].isDocumentOpenRef
          /\ openPending'[v] \ openPending[v] # {}
                => hook[v].serverIdRef # NoServer /\ hook[v].isConnected
          /\ (hook'[v].isDocumentOpenRef /\ ~hook[v].isDocumentOpenRef)
                => openPending[v] \ openPending'[v] # {}]_vars

\* A view is connected, its FileConnection registered, no document open
\* and no openDocument call made yet.
C19_Witness ==
    \E v \in Views :
        /\ hook[v].isConnected
        /\ cur[v] = "connected"
        /\ RegisteredFor(v, hook[v], cm)
        /\ regSrv[v] = hook[v].serverIdRef
        /\ ~hook[v].isDocumentOpenRef
        /\ openPending[v] = {}

\* C20 (as claimed): a protocol call made while the view has no server
\* returns no result and raises nothing.
C20_CallsWithoutServerReturnNothing ==
    (call.op # "none" /\ call.serverId = NoServer)
        => call.result = "returns"

\* C20 (amended): without a server, updateDocument, closeDocument, getHover,
\* getDefinition and getReferences return no result and are not forwarded,
\* while openDocument throws.
C20_OnlyOpenDocumentThrows ==
    (call.op # "none" /\ call.serverId = NoServer)
        => call.result = IF call.op = "openDocument" THEN "throws"
                         ELSE "returns"

\* A hover was requested on a view without server, although a file had been
\* opened before: nothing was returned.
C20_Witness ==
    /\ call.op = "getHover"
    /\ call.serverId = NoServer
    /\ call.filePath # NoFile
    /\ call.result = "returns"

\* A diagnostics event has been delivered; the file it is for.
Delivered == diag.event # NoEvent

EventPath == diagnosticFilePathOf(diag.event.uri)

\* An active view displays the file: its hook is enabled for that file.
Displays(v, f) == diag.views[v].enabled /\ diag.views[v].filePath = f

\* No diagnostic is stored for the file and none is counted.
NothingStoredFor(f) ==
    /\ diag.store.diagnosticsByFile[f].list = <<>>
    /\ diag.store.diagnosticsCounts = countDiagnostics(<<>>)

\* C21 (as claimed): an event for a file that no active view displays sets
\* no markers and stores and counts nothing for the file.
C21_UndisplayedEventDropped ==
    (Delivered /\ \A v \in Views : ~Displays(v, EventPath))
        => /\ \A v \in Views : ~diag.markers[v].set
           /\ NothingStoredFor(EventPath)

\* C21 (amended): such an event sets no markers on any view; the store
\* takes it all the same, filtered, when a hook is subscribed, and nothing
\* changes when none is.
C21_UndisplayedEventSetsNoMarkers ==
    (Delivered /\ \A v \in Views : ~Displays(v, EventPath))
        => /\ \A v \in Views : ~diag.markers[v].set
           /\ IF Subscribers = {} THEN diag.store = EmptyStore
              ELSE diag.store.diagnosticsByFile[EventPath] =
                     [present |-> TRUE,
                      list |-> filteredDiagnosticsOf(diag.settings,
                                                     diag.event.diagnostics)]

\* An event with a diagnostic that passes the filter came for a file no
\* view displays while a view with an editor displayed another file: it is
\* in the store and on no editor.
C21_Witness ==
    /\ Delivered
    /\ \A v \in Views : ~Displays(v, EventPath)
    /\ \E v \in Views : /\ diag.views[v].enabled
                         /\ diag.views[v].editor
                         /\ diag.views[v].filePath \in DiagFiles
    /\ diag.settings.showDiagnostics
    /\ diag.store.diagnosticsByFile[EventPath].list # <<>>
    /\ \A v \in Views : ~diag.markers[v].set

\* The event is for the file view v shows, and the language inferred for
\* it differs from the language of the view's connection.
StaleFor(v) ==
    /\ Delivered
    /\ Displays(v, EventPath)
    /\ diag.views[v].languageRef # NoLang
    /\ getLanguageIdForPath(EventPath) # diag.views[v].languageRef

\* C22 (as claimed): an event whose inferred language differs from the
\* language of the receiving view's connection sets no markers on that
\* view and is not applied to the stored diagnostics.
C22_MismatchedEventDiscarded ==
    \A v \in Views :
        (StaleFor(v) /\ \A w \in Views : Displays(w, EventPath) => StaleFor(w))
            => /\ ~diag.markers[v].set
               /\ NothingStoredFor(EventPath)

\* C22 (amended): such an event sets no markers on that view, but it is
\* applied to the stored diagnostics like any other.
C22_MismatchedEventSetsNoMarkers ==
    \A v \in Views :
        StaleFor(v)
            => /\ ~diag.markers[v].set
               /\ diag.store.diagnosticsByFile[EventPath] =
                     [present |-> TRUE,
                      list |-> filteredDiagnosticsOf(diag.settings,
                                                     diag.event.diagnostics)]

\* A view with an editor shows a.ts while its connection is still one for
\* rust; an event for a.ts with a visible diagnostic arrived.
C22_Witness ==
    \E v \in Views :
        /\ StaleFor(v)
        /\ diag.views[v].editor
        /\ diag.settings.showDiagnostics
        /\ markersOf(diag.settings, diag.event.diagnostics) # <<>>
        /\ ~diag.markers[v].set
        /\ diag.store.diagnosticsByFile[EventPath].list # <<>>

\* Is the show flag of a severity class off?
Hidden(class) ==
    CASE class \in {"error", "Error"}     -> ~diag.settings.showErrors
      [] class \in {"warning", "Warning"} -> ~diag.settings.showWarnings
      [] class \in {"info", "Info"}       -> ~diag.settings.showInfo
      [] class \in {"hint", "Hint"}       -> ~diag.settings.showHints

\* C23 (as claimed): after an event neither the list stored for the file
\* nor the markers of any editor hold a diagnostic of a severity whose show
\* flag was off.
C23_OnlyVisibleSeveritiesForwarded ==
    Delivered =>
        /\ LET stored == diag.store.diagnosticsByFile[EventPath].list
           IN  \A i \in 1..Len(stored) : ~Hidden(stored[i])
        /\ \A v \in Views :
              \A i \in 1..Len(diag.markers[v].list) :
                  ~Hidden(diag.markers[v].list[i])

\* The servers whose record the registry has removed: started once, and
\* their count brought to 0 by the last decrementRefCount.
Removed == {s \in ServerIds : s < nextId /\ refCount[s] = 0}

\* C24: incrementRefCount never succeeds against a serverId whose record is
\* gone, however the call interleaves with the decrementRefCount of another
\* view that brought the count to 0: the count stays 0, no view gains a
\* reference to that server and none becomes connected to it.
C24_NoReferenceToRemovedServer ==
    [][\A s \in Removed :
          /\ refCount'[s] = 0
          /\ \A v \in Views :
                /\ held'[v][s] <= held[v][s]
                /\ hook'[v].serverIdRef = s => hook[v].serverIdRef = s]_vars

\* A view found in the connection manager a server that another view's
\* last decrementRefCount had removed; its incrementRefCount failed and it
\* holds no reference to that server.
C24_Witness ==
    \E v \in Views :
        /\ purged[v] # NoServer
        /\ purged[v] \in Removed
        /\ held[v][purged[v]] = 0
        /\ hook[v].serverIdRef # purged[v]
        /\ cur[v] = "start"

\* The references a view has acquired and not released, over the servers ss.
RECURSIVE Unreleased(_, _)
Unreleased(v, ss) ==
    IF ss = {} THEN 0
    ELSE LET s == CHOOSE x \in ss : TRUE
         IN  held[v][s] + Unreleased(v, ss \ {s})

\* C27 (as claimed): a view's hasIncremented flag is true exactly while the
\* view holds one acquired, unreleased reference; the view's serverId then
\* names the server of that reference; and the flag is false once the view
\* is deactivated.
C27_FlagIffOneReference ==
    \A v \in Views :
        /\ hook[v].hasIncrementedRefRef <=> Unreleased(v, ServerIds) = 1
        /\ hook[v].hasIncrementedRefRef
              => /\ hook[v].serverIdRef # NoServer
                 /\ held[v][hook[v].serverIdRef] = 1
        /\ cfg[v] \notin Files => ~hook[v].hasIncrementedRefRef

\* The references recorded under the key of a FileConnection.
RefsOf(cmgr, conn) ==
    cmgr.serverReferences[KeyOf(conn.rootPath, conn.language)]

\* C28 (as claimed): after any sequence of register, unregister,
\* unregisterServer and clear the two indices agree: a file has a
\* FileConnection (root, language, serverId) exactly when it is in the file
\* set of the key root:language, and the serverId recorded for the key is
\* that of the FileConnection.
C28_IndicesAgree ==
    \A f \in Files :
        /\ cm.connections[f] # NoConn
              => /\ f \in RefsOf(cm, cm.connections[f]).filePaths
                 /\ RefsOf(cm, cm.connections[f]).serverId
                        = cm.connections[f].serverId
        /\ \A k \in DOMAIN cm.serverReferences :
              f \in cm.serverReferences[k].filePaths
                  => /\ cm.connections[f] # NoConn
                     /\ KeyOf(cm.connections[f].rootPath,
                              cm.connections[f].language) = k

\* C29 (as claimed): getConnectionByRoot(root, language) is non-null
\* exactly when some FileConnection with that root and language exists,
\* and the serverId it returns is that of such a FileConnection.
C29_ByRootIffSomeFile ==
    \A k \in DOMAIN cm.serverReferences :
        LET found == getConnectionByRoot(cm, k[1], k[2])
            files == FilesOfKey(cm, [rootPath |-> k[1], language |-> k[2]])
        IN  /\ found # NoConn <=> files # {}
            /\ found # NoConn
                  => \E f \in files :
                        cm.connections[f].serverId = found.serverId

\* C25: after start() and any changes of the running count, changes during
\* the initial sync or during a call in flight included, once the manager
\* is idle the backend ref-count observed at start plus the acquire calls
\* minus the release calls equals the current running-task count.
C25_IdleCountsMatchRunning ==
    Idle(keepAwake)
        => /\ keepAwake.atStart + keepAwake.acquires - keepAwake.releases
                 = keepAwake.running
           /\ keepAwake.runningCount = keepAwake.running

\* The manager is idle after a running-count change that arrived while a
\* call was in flight; it has both acquired and released.
C25_Witness ==
    /\ Idle(keepAwake)
    /\ keepAwake.raced
    /\ keepAwake.acquires > 0
    /\ keepAwake.releases > 0

\* C26: start() is idempotent: a second start() changes nothing, so one
\* subscription exists while the manager is started and each change of the
\* running count reaches it once; stop() removes the subscription and
\* resets the snapshot's runningCount to 0.
C26_StartIdempotentStopResets ==
    /\ keepAwake.listeners = (IF keepAwake.started THEN 1 ELSE 0)
    /\ (keepAwake.op = "change" /\ keepAwake.started)
          => keepAwake.notified = 1
    /\ keepAwake.op = "stop"
          => /\ keepAwake.listeners = 0
             /\ keepAwake.runningCount = 0

\* start() was called again on a started manager, and a later change of
\* the running count reached the manager through its one subscription.
C26_Witness ==
    /\ keepAwake.again
    /\ keepAwake.op = "change"
    /\ keepAwake.started
    /\ keepAwake.listeners = 1
    /\ keepAwake.notified = 1

\* C30 (as claimed): the notifications a view sends for its document
\* follow open, changes, close: no open is sent while the document is open
\* or an earlier open is in flight, and no change or close is sent for a
\* document that is not open (before its open completed, after its close,
\* after the view's deactivation).
C30_OpenChangesClose ==
    \A i \in 1..Len(doc.sent) :
        IF doc.sent[i].kind = "open"
        THEN doc.sent[i].document = "closed"
        ELSE doc.sent[i].document = "open"

\* The view's component exists and no activation of it has connected since
\* its last cleanup.
NotConnectedNow(v) == cfg[v] # "unmounted" /\ cur[v] # "connected"

\* C31 (as claimed): whenever a view's deactivation cleanup has run and no
\* new activation has connected, the view reports isConnected = false and
\* serverId = null; and isConnected is true only while the view holds a
\* server reference.
C31_StatusFollowsCleanup ==
    \A v \in Views :
        /\ NotConnectedNow(v)
              => ~hook[v].isConnected /\ hook[v].serverId = NoServer
        /\ (cfg[v] # "unmounted" /\ hook[v].isConnected)
              => /\ hook[v].serverIdRef # NoServer
                 /\ held[v][hook[v].serverIdRef] > 0

\* C32 (as claimed): once every activation the view started has returned
\* and none is in flight, isLoading is false, also when an activation was
\* superseded or the view was disabled while it was suspended.
C32_LoadingEndsWithActivations ==
    \A v \in Views :
        (cfg[v] # "unmounted" /\ cur[v] \notin {"status", "start"}
            /\ stale[v] = NoStale)
            => ~hook[v].isLoading

\* The diagnostics of each severity stored over the files fs.
RECURSIVE StoredCounts(_, _)
StoredCounts(store, fs) ==
    IF fs = {} THEN countDiagnostics(<<>>)
    ELSE LET f == CHOOSE x \in fs : TRUE
         IN  updateCounts(StoredCounts(store, fs \ {f}),
                          countDiagnostics(<<>>),
                          countDiagnostics(store.diagnosticsByFile[f].list))

ClassOf(markerSeverity) ==
    CASE markerSeverity = "Error"   -> "error"
      [] markerSeverity = "Warning" -> "warning"
      [] markerSeverity = "Info"    -> "info"
      [] markerSeverity = "Hint"    -> "hint"

\* C35 (as claimed): for an event for the view's file, under every
\* combination of severity settings, the diagnostics kept in the store for
\* the file and the markers applied to the editor are the same diagnostics
\* with the same severity class, also for a diagnostic whose severity is
\* absent.
C35_StoreAndMarkersAgree ==
    \A v \in Views :
        diag.markers[v].set
            => [i \in 1..Len(diag.markers[v].list) |->
                    ClassOf(diag.markers[v].list[i])]
                 = diag.store.diagnosticsByFile[EventPath].list

\* C36: mapLspSeverity is total: the protocol severities 1, 2, 3, 4 map to
\* Error, Warning, Info, Hint, and every other input, absent or out of
\* range, maps to the default Info.
C36_SeverityMappingTotal ==
    diag.mapped
        => /\ Len(diag.markers) = Len(diag.severities)
           /\ \A i \in 1..Len(diag.severities) :
                 LET n == diag.severities[i]
                     m == diag.markers[i]
                 IN  /\ n = 1 => m = "Error"
                     /\ n = 2 => m = "Warning"
                     /\ n = 3 => m = "Info"
                     /\ n = 4 => m = "Hint"
                     /\ n \notin 1..4 => m = "Info"

\* A diagnostic without severity and one with a severity out of range were
\* mapped.
C36_Witness ==
    /\ diag.mapped
    /\ \E i, j \in 1..Len(diag.severities) :
          /\ diag.severities[i] = NoSeverity
          /\ diag.severities[j] \notin 0..4
          /\ diag.markers[i] = "Info"
          /\ diag.markers[j] = "Info"

\* C37: pendingDownloads never holds two entries for one language,
\* whatever sequence of addPendingDownload and removePendingDownload calls
\* the views issue; after removePendingDownload(language) no entry for the
\* language remains.
C37_OnePendingDownloadPerLanguage ==
    /\ \A i, j \in 1..Len(pendingDownloads) :
          pendingDownloads[i] = pendingDownloads[j] => i = j
    /\ call.op = "removePendingDownload"
          => \A i \in 1..Len(pendingDownloads) :
                pendingDownloads[i] # call.language

\* Two views asked for the download of the same language and it is
\* pending once, next to another.
C37_Witness ==
    /\ call.op = "addPendingDownload"
    /\ call.result = "present"
    /\ Len(pendingDownloads) = 2

\* A pending download was removed while others stay pending.
C37_Removed ==
    /\ call.op = "removePendingDownload"
    /\ call.result = "removed"
    /\ Len(pendingDownloads) = 2
====
